---------------------------- MODULE Spec2Model ----------------------------
(***************************************************************************)
(* A model of nearest-colors (src/lib/index.ts): the colour normalizer     *)
(* parseColorToRGB, the palette builder mapColors/createColorSpec, the     *)
(* search nearestColor bound by nearestFrom, and rgbaToHex.                *)
(*                                                                         *)
(* JavaScript strings are sequences of one-character strings, so that the  *)
(* regular expressions, substring, split, parseInt and toString(16) of the *)
(* source are computed character by character.  JavaScript values are      *)
(* records tagged with their type; a thrown exception is the tagged value  *)
(* an expression evaluates to instead of a result.                         *)
(***************************************************************************)
EXTENDS Integers, Sequences, FiniteSets, TLC

VARIABLES
    args,    \* the arguments nearestFrom was called with
    colors,  \* the ColorSpec[] captured by the closure nearestColorFrom
    bound,   \* TRUE once nearestFrom has returned the matcher
    call,    \* the arguments of the latest call
    ret      \* what the latest call returned or threw

vars == <<args, colors, bound, call, ret>>

(***************************************************************************)
(* Characters.                                                             *)
(***************************************************************************)
DecChars == <<"0", "1", "2", "3", "4", "5", "6", "7", "8", "9">>

HexChars == DecChars \o <<"a", "b", "c", "d", "e", "f">>

UpperChars == <<"A", "B", "C", "D", "E", "F", "G", "H", "I", "J", "K", "L", "M",
                "N", "O", "P", "Q", "R", "S", "T", "U", "V", "W", "X", "Y", "Z">>

LowerChars == <<"a", "b", "c", "d", "e", "f", "g", "h", "i", "j", "k", "l", "m",
                "n", "o", "p", "q", "r", "s", "t", "u", "v", "w", "x", "y", "z">>

Range(f) == {f[i] : i \in DOMAIN f}

IndexIn(seq, c) == CHOOSE i \in DOMAIN seq : seq[i] = c

\* Case folding of the regular expressions' i flag.
ToLower(c) == IF c \in Range(UpperChars) THEN LowerChars[IndexIn(UpperChars, c)] ELSE c

\* \d
IsDigit(c) == c \in Range(DecChars)

\* [0-9a-f] under the i flag
IsHexDigit(c) == ToLower(c) \in Range(HexChars)

\* \s, for the white space the inputs of this model contain
IsSpace(c) == c \in {" ", "\t"}

DigitVal(c) == IndexIn(DecChars, c) - 1

HexDigitVal(c) == IndexIn(HexChars, ToLower(c)) - 1

(***************************************************************************)
(* JavaScript values.  s holds the characters of a string; r, g, b hold    *)
(* the channels of an object that has them.                                *)
(***************************************************************************)
JSValue(t, s, r, g, b) == [t |-> t, s |-> s, r |-> r, g |-> g, b |-> b]

Str(s) == JSValue("string", s, 0, 0, 0)

RGB(r, g, b) == JSValue("rgb", <<>>, r, g, b)

Undefined == JSValue("undefined", <<>>, 0, 0, 0)

Null == JSValue("null", <<>>, 0, 0, 0)

\* Object.prototype itself, the value of the inherited property __proto__.
ObjectPrototype == JSValue("Object.prototype", <<>>, 0, 0, 0)

\* An inherited method such as Object.prototype.toString.
BuiltinFunction == JSValue("function", <<>>, 0, 0, 0)

\* A thrown TypeError (a property read of undefined or null, a call of a non-function).
TypeError == JSValue("TypeError", <<>>, 0, 0, 0)

\* The Error nearestColor throws for a needle that does not parse.
ColourError == JSValue("Error: Provided colour does not compute!", <<>>, 0, 0, 0)

Threw(v) == v.t \in {TypeError.t, ColourError.t}

\* typeof v
TypeOf(v) ==
    CASE v.t = "string" -> "string"
      [] v.t = "undefined" -> "undefined"
      [] v.t = "function" -> "function"
      [] OTHER -> "object"

\* if (v): the truthiness of a value
Truthy(v) ==
    CASE v.t = "string" -> v.s # <<>>
      [] v.t \in {"undefined", "null"} -> FALSE
      [] OTHER -> TRUE

(***************************************************************************)
(* Objects are sequences of own properties in key enumeration order.       *)
(***************************************************************************)
Prop(k, v) == [key |-> k, val |-> v]

\* The properties every plain object inherits from Object.prototype.
InheritedProps == <<
    Prop(<<"c","o","n","s","t","r","u","c","t","o","r">>, BuiltinFunction),
    Prop(<<"t","o","S","t","r","i","n","g">>, BuiltinFunction),
    Prop(<<"v","a","l","u","e","O","f">>, BuiltinFunction),
    Prop(<<"_","_","p","r","o","t","o","_","_">>, ObjectPrototype) >>

Keys(obj) == [i \in DOMAIN obj |-> obj[i].key]

HasOwn(obj, k) == \E i \in DOMAIN obj : obj[i].key = k

\* key in obj: own and inherited properties
In(k, obj) == HasOwn(obj, k) \/ HasOwn(InheritedProps, k)

\* obj[key]
Get(obj, k) ==
    IF HasOwn(obj, k) THEN obj[CHOOSE i \in DOMAIN obj : obj[i].key = k].val
    ELSE IF HasOwn(InheritedProps, k)
         THEN InheritedProps[CHOOSE i \in DOMAIN InheritedProps : InheritedProps[i].key = k].val
         ELSE Undefined

STANDARD_COLORS == <<
    Prop(<<"a","q","u","a">>,             Str(<<"#","0","f","f">>)),
    Prop(<<"b","l","a","c","k">>,         Str(<<"#","0","0","0">>)),
    Prop(<<"b","l","u","e">>,             Str(<<"#","0","0","f">>)),
    Prop(<<"f","u","c","h","s","i","a">>, Str(<<"#","f","0","f">>)),
    Prop(<<"g","r","a","y">>,             Str(<<"#","8","0","8","0","8","0">>)),
    Prop(<<"g","r","e","e","n">>,         Str(<<"#","0","0","8","0","0","0">>)),
    Prop(<<"l","i","m","e">>,             Str(<<"#","0","f","0">>)),
    Prop(<<"m","a","r","o","o","n">>,     Str(<<"#","8","0","0","0","0","0">>)),
    Prop(<<"n","a","v","y">>,             Str(<<"#","0","0","0","0","8","0">>)),
    Prop(<<"o","l","i","v","e">>,         Str(<<"#","8","0","8","0","0","0">>)),
    Prop(<<"o","r","a","n","g","e">>,     Str(<<"#","f","f","a","5","0","0">>)),
    Prop(<<"p","u","r","p","l","e">>,     Str(<<"#","8","0","0","0","8","0">>)),
    Prop(<<"r","e","d">>,                 Str(<<"#","f","0","0">>)),
    Prop(<<"s","i","l","v","e","r">>,     Str(<<"#","c","0","c","0","c","0">>)),
    Prop(<<"t","e","a","l">>,             Str(<<"#","0","0","8","0","8","0">>)),
    Prop(<<"w","h","i","t","e">>,         Str(<<"#","f","f","f">>)),
    Prop(<<"y","e","l","l","o","w">>,     Str(<<"#","f","f","0">>)) >>

(***************************************************************************)
(* parseComponentValue and the numeric conversions it uses.                *)
(***************************************************************************)
\* The value of a string of decimal digits (Number and parseInt agree on it).
RECURSIVE DecValue(_)
DecValue(ds) ==
    IF ds = <<>> THEN 0
    ELSE 10 * DecValue(SubSeq(ds, 1, Len(ds) - 1)) + DigitVal(ds[Len(ds)])

\* Math.round of the non-negative quotient n / d: halves round up.
MathRoundDiv(n, d) == (2 * n + d) \div (2 * d)

\* parseComponentValue with the percentage truncated instead of rounded.
parseComponentValueTruncated(text) ==
    IF text[Len(text)] = "%"
    THEN (DecValue(SubSeq(text, 1, Len(text) - 1)) * 255) \div 100
    ELSE DecValue(text)

parseComponentValue(text) ==
    IF text[Len(text)] = "%"
    THEN MathRoundDiv(DecValue(SubSeq(text, 1, Len(text) - 1)) * 255, 100)
    ELSE DecValue(text)

(***************************************************************************)
(* The two regular expressions of parseColorToRGB.                         *)
(***************************************************************************)
\* source.match(/^#((?:[0-9a-f]{3}){1,2})$/i): the captured digits, <<>> for no match
HexMatch(s) ==
    IF /\ Len(s) >= 1
       /\ s[1] = "#"
       /\ Len(s) - 1 \in {3 * k : k \in 1..2}
       /\ \A i \in 2..Len(s) : IsHexDigit(s[i])
    THEN SubSeq(s, 2, Len(s))
    ELSE <<>>

\* \s* from position i: the position of the first character that is not white space
RECURSIVE SkipSpace(_, _)
SkipSpace(s, i) == IF i <= Len(s) /\ IsSpace(s[i]) THEN SkipSpace(s, i + 1) ELSE i

\* How many digits, at most max, start at position i.
RECURSIVE DigitRun(_, _, _)
DigitRun(s, i, max) ==
    IF max > 0 /\ i <= Len(s) /\ IsDigit(s[i]) THEN 1 + DigitRun(s, i + 1, max - 1) ELSE 0

\* (\d{1,3}%?) at position i
RgbComponent(s, i) ==
    LET n == DigitRun(s, i, 3)
        j == i + n
        k == IF j <= Len(s) /\ s[j] = "%" THEN j + 1 ELSE j
    IN  [ok |-> n >= 1, text |-> SubSeq(s, i, k - 1), next |-> k]

CharAt(s, i, c) == i <= Len(s) /\ s[i] = c

\* source.match(/^rgb\(\s*(\d{1,3}%?),\s*(\d{1,3}%?),\s*(\d{1,3}%?)\s*\)$/i):
\* the three captured components, <<>> for no match
RgbMatch(s) ==
    LET c1 == RgbComponent(s, SkipSpace(s, 5))
        c2 == RgbComponent(s, SkipSpace(s, c1.next + 1))
        c3 == RgbComponent(s, SkipSpace(s, c2.next + 1))
        close == SkipSpace(s, c3.next)
    IN  IF /\ Len(s) >= 4
           /\ [i \in 1..3 |-> ToLower(s[i])] = <<"r", "g", "b">>
           /\ s[4] = "("
           /\ c1.ok /\ CharAt(s, c1.next, ",")
           /\ c2.ok /\ CharAt(s, c2.next, ",")
           /\ c3.ok /\ CharAt(s, close, ")")
           /\ close = Len(s)
        THEN <<c1.text, c2.text, c3.text>>
        ELSE <<>>

\* parseInt(pair, 16) of two hex digits
ParseHexPair(hi, lo) == 16 * HexDigitVal(hi) + HexDigitVal(lo)

\* HexToRGB with the digits of a 3-digit capture padded with 0 instead of doubled.
HexToRGBPadded(h) ==
    IF Len(h) = 3
    THEN RGB(ParseHexPair(h[1], "0"), ParseHexPair(h[2], "0"), ParseHexPair(h[3], "0"))
    ELSE RGB(ParseHexPair(h[1], h[2]), ParseHexPair(h[3], h[4]), ParseHexPair(h[5], h[6]))

\* The three channels of the captured hex digits: a 3-digit capture doubles each digit.
HexToRGB(h) ==
    IF Len(h) = 3
    THEN RGB(ParseHexPair(h[1], h[1]), ParseHexPair(h[2], h[2]), ParseHexPair(h[3], h[3]))
    ELSE RGB(ParseHexPair(h[1], h[2]), ParseHexPair(h[3], h[4]), ParseHexPair(h[5], h[6]))

\* The property key a value converts to; only strings name properties here.
PropertyKey(v) ==
    CASE v.t = "string" -> v.s
      [] v.t = "undefined" -> <<"u","n","d","e","f","i","n","e","d">>
      [] OTHER -> <<"[","n","o"," ","k","e","y","]">>

RECURSIVE parseColorToRGB(_)
parseColorToRGB(source) ==
    IF TypeOf(source) = "object" THEN source
    ELSE IF In(PropertyKey(source), STANDARD_COLORS)
         THEN parseColorToRGB(Get(STANDARD_COLORS, PropertyKey(source)))
    ELSE IF TypeOf(source) # "string" THEN TypeError   \* source.match is not a function
    ELSE IF HexMatch(source.s) # <<>> THEN HexToRGB(HexMatch(source.s))
    ELSE IF RgbMatch(source.s) # <<>>
         THEN RGB(parseComponentValue(RgbMatch(source.s)[1]),
                  parseComponentValue(RgbMatch(source.s)[2]),
                  parseComponentValue(RgbMatch(source.s)[3]))
    ELSE Null

(***************************************************************************)
(* The normalizer on its own: every behaviour of SpecParse takes one input *)
(* and applies parseColorToRGB to it.                                      *)
(***************************************************************************)
MaxHexDigits == 8

MaxComponent == 4

Pending == JSValue("pending", <<>>, 0, 0, 0)

NoArgs == [isArray |-> FALSE, records |-> <<>>, name |-> Undefined, hexCode |-> Undefined]

\* All strings of at most n characters of alphabet.
Words(alphabet, n) == UNION {[1..k -> alphabet] : k \in 0..n}

RECURSIVE DecString(_)
DecString(n) ==
    IF n < 10 THEN <<DecChars[n + 1]>> ELSE DecString(n \div 10) \o <<DecChars[(n % 10) + 1]>>

ParseCall(source, kind, comps, gaps) ==
    [source |-> source, kind |-> kind, comps |-> comps, gaps |-> gaps]

\* '#' followed by up to MaxHexDigits hex digits, letters in both cases.
HexAlphabet == {"a", "A", "9"}

\* A component of an rgb(...) string: the number n, followed by '%' when pct.
Component(n, pct) == [n |-> n, pct |-> pct]

ComponentText(c) == DecString(c.n) \o (IF c.pct THEN <<"%">> ELSE <<>>)

\* rgb( g1 c1 g2 , g3 c2 g4 , g5 c3 g6 ) with gaps g1..g6 of white space
RgbText(comps, gaps) ==
    <<"r", "g", "b", "(">> \o gaps[1] \o ComponentText(comps[1]) \o gaps[2] \o <<",">>
        \o gaps[3] \o ComponentText(comps[2]) \o gaps[4] \o <<",">>
        \o gaps[5] \o ComponentText(comps[3]) \o gaps[6] \o <<")">>

ComponentNumbers == (0..MaxComponent) \cup {10, 50, 100, 255, 999, 1000}

Gaps == {<<>>, <<" ">>, <<"\t", " ">>}

NoGaps == [i \in 1..6 |-> <<>>]

RgbComponents == {Component(n, pct) : n \in ComponentNumbers, pct \in BOOLEAN}

GapComponents == {Component(7, FALSE), Component(50, TRUE)}

Capitalized(s) == [i \in DOMAIN s |-> IF i = 1 THEN UpperChars[IndexIn(LowerChars, s[1])] ELSE s[i]]

OtherStrings == {
    <<>>, <<"f","o","o">>, <<"#">>, <<"f","f","f">>, <<"#","f","f","f"," ">>,
    <<"#","g","g","g">>, <<"#","a","9","g">>, <<"#","f","f","8","8","0","g">>,
    <<"R","G","B","(","1",",","2",",","3",")">>,
    <<"r","g","b","a","(","1",",","1",",","1",",","1",")">>,
    <<"r","g","b","(","1",",","2",")">>,
    <<"r","g","b","(","-","1",",","2",",","3",")">>,
    <<"r","g","b","(","1",".","5",",","2",",","3",")">>,
    <<"#","f","f","8","8","0","0","0","0">> }

OtherNames ==
    Range(Keys(STANDARD_COLORS)) \cup Range(Keys(InheritedProps)) \cup OtherStrings
        \cup {Capitalized(n) : n \in Range(Keys(STANDARD_COLORS))}

ObjectSources == {RGB(3, 22, 111), RGB(0, 0, 0), Null}

InitParse ==
    /\ args = NoArgs
    /\ colors = <<>>
    /\ bound = FALSE
    /\ \/ \E w \in Words(HexAlphabet, MaxHexDigits) :
             call = ParseCall(Str(<<"#">> \o w), "hex", <<>>, <<>>)
       \/ \E comps \in [1..3 -> RgbComponents] :
             call = ParseCall(Str(RgbText(comps, NoGaps)), "rgb", comps, NoGaps)
       \/ \E comps \in [1..3 -> GapComponents], gaps \in [1..6 -> Gaps] :
             call = ParseCall(Str(RgbText(comps, gaps)), "rgb", comps, gaps)
       \/ \E k \in OtherNames : call = ParseCall(Str(k), "name", <<>>, <<>>)
       \/ \E v \in ObjectSources : call = ParseCall(v, "object", <<>>, <<>>)
    /\ ret = Pending

ParseColor ==
    /\ ret = Pending
    /\ ret' = parseColorToRGB(call.source)
    /\ UNCHANGED <<args, colors, bound, call>>

NextParse == ParseColor

SpecParse == InitParse /\ [][NextParse]_vars

(***************************************************************************)
(* Properties of the normalizer under SpecParse.                            *)
(***************************************************************************)
Parsed == ret # Pending

\* The value of each hex digit of HexAlphabet, written out.
AlphabetValue(c) == CASE c = "a" -> 10 [] c = "A" -> 10 [] c = "9" -> 9

AlphabetLower(c) == IF c = "A" THEN "a" ELSE c

HexDigitsOfCall == Tail(call.source.s)

\* C10: a 3-digit hex string #xyz yields the triple of its expansion #xxyyzz,
\* 17 times each digit's value; a 6-digit string yields 16*high + low per pair;
\* the letter case of the digits does not matter; and '#' followed by any other
\* number of hex digits does not match the hex rule, so the result is null.
HexShortEqualsExpanded ==
    (Parsed /\ call.kind = "hex") =>
        LET d == HexDigitsOfCall
            v == [i \in DOMAIN d |-> AlphabetValue(d[i])]
        IN  /\ Len(d) = 3 =>
                /\ ret = RGB(17 * v[1], 17 * v[2], 17 * v[3])
                /\ ret = parseColorToRGB(Str(<<"#", d[1], d[1], d[2], d[2], d[3], d[3]>>))
            /\ Len(d) = 6 =>
                ret = RGB(16 * v[1] + v[2], 16 * v[3] + v[4], 16 * v[5] + v[6])
            /\ ret = parseColorToRGB(Str(<<"#">> \o [i \in DOMAIN d |-> AlphabetLower(d[i])]))
            /\ Len(d) \notin {3, 6} => ret = Null

\* C10 witness: "#aA9" has been parsed to {r: 170, g: 170, b: 153}.
HexShortParsed ==
    /\ call.source = Str(<<"#", "a", "A", "9">>)
    /\ ret = RGB(170, 170, 153)

IsThreeDigits(c) == c.n <= 999

\* Math.round(n * 255 / 100), characterised by k - 1/2 <= n * 255 / 100 < k + 1/2.
NearestToPercent(n) ==
    CHOOSE k \in 0..2600 : 100 * (2 * k - 1) <= 510 * n /\ 510 * n < 100 * (2 * k + 1)

ComponentMeaning(c) == IF c.pct THEN NearestToPercent(c.n) ELSE c.n

RgbMeaning(comps) ==
    RGB(ComponentMeaning(comps[1]), ComponentMeaning(comps[2]), ComponentMeaning(comps[3]))

RgbWellFormed == call.kind = "rgb" /\ \A i \in 1..3 : IsThreeDigits(call.comps[i])

\* C9 as stated: every rgb(...) string of three components of 1 to 3 digits, each
\* optionally followed by '%', with optional white space around each component, is
\* accepted and maps each component to its integer or to round(p * 255 / 100).
RgbAcceptedWithSpaceAround ==
    (Parsed /\ RgbWellFormed) => ret = RgbMeaning(call.comps)

\* C9 as amended: such a string is accepted, with that meaning, when its white space
\* stands before a component or after the last one; white space between a component
\* and the comma that follows it makes the string fail to normalize.
RgbAcceptedWithSpaceBefore ==
    (Parsed /\ RgbWellFormed) =>
        IF call.gaps[2] = <<>> /\ call.gaps[4] = <<>>
        THEN ret = RgbMeaning(call.comps)
        ELSE ret = Null

\* C9 witness: "rgb( 50%,\t 7, 50% )" has been parsed to {r: 128, g: 7, b: 128}.
RgbWithSpaceParsed ==
    /\ call.kind = "rgb"
    /\ call.comps = <<Component(50, TRUE), Component(7, FALSE), Component(50, TRUE)>>
    /\ call.gaps = <<<<" ">>, <<>>, <<"\t", " ">>, <<>>, <<" ">>, <<" ">>>>
    /\ ret = RGB(128, 7, 128)

IsStandardName(s) == HasOwn(STANDARD_COLORS, s)

\* C8: the normalizer never raises, and a string that is no name of the built-in
\* table, no '#' with 3 or 6 hex digits and no rgb(...) string yields null; only
\* the names of the table are named colours ("aqua" is {r: 0, g: 255, b: 255}).
NormalizerNeverRaises ==
    (Parsed /\ call.source.t = "string") =>
        /\ ~Threw(ret)
        /\ ret.t = "rgb" \/ ret = Null
        /\ (/\ ~IsStandardName(call.source.s)
            /\ HexMatch(call.source.s) = <<>>
            /\ RgbMatch(call.source.s) = <<>>) => ret = Null
        /\ call.source.s = <<"a", "q", "u", "a">> => ret = RGB(0, 255, 255)

(***************************************************************************)
(* rgbaToHex and the string functions it uses.                             *)
(***************************************************************************)
\* str.replace(/^\s+|\s+$/gm, "") of a string of one line
RECURSIVE trim(_)
trim(str) ==
    IF str # <<>> /\ IsSpace(str[1]) THEN trim(Tail(str))
    ELSE IF str # <<>> /\ IsSpace(str[Len(str)]) THEN trim(SubSeq(str, 1, Len(str) - 1))
    ELSE str

\* str.indexOf(c): the 0-based position of the first c, -1 when there is none
IndexOf(str, c) ==
    IF \E i \in DOMAIN str : str[i] = c
    THEN (CHOOSE i \in DOMAIN str : str[i] = c /\ \A j \in 1..(i - 1) : str[j] # c) - 1
    ELSE -1

\* str.substring(start) for a 0-based start; a negative start counts as 0
SubstringFrom(str, start) == SubSeq(str, (IF start < 0 THEN 0 ELSE start) + 1, Len(str))

\* str.split(c)
RECURSIVE Split(_, _)
Split(str, c) ==
    IF IndexOf(str, c) = -1 THEN <<str>>
    ELSE <<SubSeq(str, 1, IndexOf(str, c))>> \o Split(SubstringFrom(str, IndexOf(str, c) + 1), c)

\* A number: an integer or NaN.
Num(n) == [nan |-> FALSE, n |-> n]

NaN == [nan |-> TRUE, n |-> 0]

\* parseInt(str, 10): leading white space, an optional sign, then the longest run of digits
ParseInt10(str) ==
    LET s0 == SkipSpace(str, 1)
        signed == s0 <= Len(str) /\ str[s0] \in {"+", "-"}
        d0 == IF signed THEN s0 + 1 ELSE s0
        n == DigitRun(str, d0, Len(str))
        magnitude == DecValue(SubSeq(str, d0, d0 + n - 1))
    IN  IF n = 0 THEN NaN
        ELSE IF signed /\ str[s0] = "-" THEN Num(0 - magnitude) ELSE Num(magnitude)

RECURSIVE NatToString16(_)
NatToString16(n) ==
    IF n < 16 THEN <<HexChars[n + 1]>>
    ELSE NatToString16(n \div 16) \o <<HexChars[(n % 16) + 1]>>

\* num.toString(16)
ToString16(num) ==
    IF num.nan THEN <<"N", "a", "N">>
    ELSE IF num.n < 0 THEN <<"-">> \o NatToString16(0 - num.n)
    ELSE NatToString16(num.n)

leadingZero(value) == IF Len(value) = 1 THEN <<"0">> \o value ELSE value

\* rgbaToHex with each channel padded to two digits, as rgbToHex does.
rgbaToHexPadded(rgba) ==
    LET parts == Split(SubstringFrom(rgba, IndexOf(rgba, "(")), ",")
    IN  IF Len(parts) < 4 THEN TypeError
        ELSE Str(<<"#">> \o leadingZero(ToString16(ParseInt10(trim(SubstringFrom(parts[1], 1)))))
                         \o leadingZero(ToString16(ParseInt10(trim(parts[2]))))
                         \o leadingZero(ToString16(ParseInt10(trim(parts[3])))))

\* parts[1] .. parts[3] of the source are parts[2] .. parts[4] here; reading a
\* missing part gives undefined, and trim or substring of undefined throws.
rgbaToHex(rgba) ==
    LET parts == Split(SubstringFrom(rgba, IndexOf(rgba, "(")), ",")
        r == ParseInt10(trim(SubstringFrom(parts[1], 1)))
        g == ParseInt10(trim(parts[2]))
        b == ParseInt10(trim(parts[3]))
    IN  IF Len(parts) < 4 THEN TypeError
        ELSE Str(<<"#">> \o ToString16(r) \o ToString16(g) \o ToString16(b))

(***************************************************************************)
(* rgbaToHex on its own: every behaviour of SpecRgba takes one string      *)
(* rgba(R, G, B, A) and applies rgbaToHex to it.                           *)
(***************************************************************************)
MaxChannel == 16

Channels == (-1..MaxChannel) \cup {255}

Alphas == {<<"1">>, <<"0">>, <<"0", ".", "5">>}

SignedDecString(n) == IF n < 0 THEN <<"-">> \o DecString(0 - n) ELSE DecString(n)

RgbaText(r, g, b, a, gap) ==
    <<"r", "g", "b", "a", "(">> \o SignedDecString(r) \o <<",">> \o gap
        \o SignedDecString(g) \o <<",">> \o gap
        \o SignedDecString(b) \o <<",">> \o gap \o a \o <<")">>

InitRgba ==
    /\ args = NoArgs
    /\ colors = <<>>
    /\ bound = FALSE
    /\ \E r \in Channels, g \in Channels, b \in Channels, a \in Alphas, gap \in {<<>>, <<" ">>} :
          call = [rgba |-> RgbaText(r, g, b, a, gap), r |-> r, g |-> g, b |-> b,
                  a |-> a, gap |-> gap]
    /\ ret = Pending

RgbaToHex ==
    /\ ret = Pending
    /\ ret' = rgbaToHex(call.rgba)
    /\ UNCHANGED <<args, colors, bound, call>>

NextRgba == RgbaToHex

SpecRgba == InitRgba /\ [][NextRgba]_vars

\* The base-16 digits of a channel of at most two hex digits, sign first.
ChannelDigits(v) ==
    LET m == IF v < 0 THEN 0 - v ELSE v
        digits == IF m < 16 THEN <<HexChars[m + 1]>>
                  ELSE <<HexChars[(m \div 16) + 1], HexChars[(m % 16) + 1]>>
    IN  IF v < 0 THEN <<"-">> \o digits ELSE digits

\* C6 as stated: rgbaToHex of rgba(R, G, B, A) with integer R, G, B is '#' followed
\* by one hex digit per channel, whatever the alpha A is.
RgbaOneDigitPerChannel ==
    Parsed => /\ ret.t = "string"
              /\ Len(ret.s) = 4
              /\ ret.s[1] = "#"
              /\ \A i \in 2..4 : IsHexDigit(ret.s[i])

\* C6 as amended: rgbaToHex of rgba(R, G, B, A) with integer R, G, B is '#' followed
\* by the base-16 string of each channel, unpadded and converted independently,
\* whatever the alpha A is; it has one hex digit per channel when, and only when,
\* every channel is between 0 and 15.
RgbaUnpaddedPerChannel ==
    Parsed =>
        /\ ret = Str(<<"#">> \o ChannelDigits(call.r) \o ChannelDigits(call.g)
                             \o ChannelDigits(call.b))
        /\ Len(ret.s) = 4 <=> \A v \in {call.r, call.g, call.b} : v \in 0..15

\* C6 witness: rgbaToHex("rgba(1,1,1,1)") has returned "#111".
RgbaOnesConverted ==
    /\ call.rgba = <<"r", "g", "b", "a", "(", "1", ",", "1", ",", "1", ",", "1", ")">>
    /\ ret = Str(<<"#", "1", "1", "1">>)

(***************************************************************************)
(* The palette builder: rgbToHex, createColorSpec, mapColors.              *)
(***************************************************************************)
\* A ColorSpec; a property that was never assigned reads as undefined.
ColorSpec(name, source, rgb) == [name |-> name, source |-> source, rgb |-> rgb]

\* rgb.r of null, and rgb.r.toString of an object without r, throw.
rgbToHex(rgb) ==
    IF rgb.t # "rgb" THEN TypeError
    ELSE Str(<<"#">> \o leadingZero(ToString16(Num(rgb.r)))
                     \o leadingZero(ToString16(Num(rgb.g)))
                     \o leadingZero(ToString16(Num(rgb.b))))

\* What createColorSpec does: returns a ColorSpec, returns null, or throws.
Created(spec) == [status |-> "spec", spec |-> spec]

ReturnedNull == [status |-> "null", spec |-> ColorSpec(Undefined, Undefined, Undefined)]

Thrown == [status |-> "throw", spec |-> ColorSpec(Undefined, Undefined, Undefined)]

createColorSpec(input, name) ==
    LET named == IF Truthy(name) THEN name ELSE Undefined
    IN  IF TypeOf(input) = "string"
        THEN LET rgb == parseColorToRGB(input)
             IN  IF Threw(rgb) THEN Thrown
                 ELSE IF rgb = Null THEN ReturnedNull
                 ELSE Created(ColorSpec(named, input, rgb))
        ELSE IF TypeOf(input) = "object"
        THEN IF Threw(rgbToHex(input)) THEN Thrown
             ELSE Created(ColorSpec(named, rgbToHex(input), input))
        ELSE Created(ColorSpec(named, Undefined, Undefined))

\* A default parameter value: it replaces an argument that is undefined.
DefaultTo(arg, default) == IF arg = Undefined THEN default ELSE arg

\* The reduce of mapColors over the first n of its (input, name) pairs:
\* the ColorSpecs pushed so far, or threw when a createColorSpec threw.
RECURSIVE ReduceColors(_, _)
ReduceColors(pairs, n) ==
    IF n = 0 THEN [threw |-> FALSE, list |-> <<>>]
    ELSE LET result == ReduceColors(pairs, n - 1)
             newColor == createColorSpec(pairs[n][1], pairs[n][2])
         IN  IF result.threw \/ newColor.status = "throw" THEN [threw |-> TRUE, list |-> <<>>]
             ELSE IF newColor.status = "null" THEN result
             ELSE [threw |-> FALSE, list |-> Append(result.list, newColor.spec)]

\* colors is an array of records (isArray) or one object mapping names to colours.
mapColors(availableColors, nameArg, hexCodeArg) ==
    LET name == DefaultTo(nameArg, Str(<<"n", "a", "m", "e">>))
        hexCode == DefaultTo(hexCodeArg, Str(<<"v", "a", "l", "u", "e">>))
        records == availableColors.records
        pairs == IF availableColors.isArray
                 THEN [i \in DOMAIN records |->
                          <<Get(records[i], PropertyKey(hexCode)),
                            Get(records[i], PropertyKey(name))>>]
                 ELSE [i \in DOMAIN records[1] |->
                          <<Get(records[1], Keys(records[1])[i]), Str(Keys(records[1])[i])>>]
    IN  ReduceColors(pairs, Len(pairs))

(***************************************************************************)
(* The search: compare, Array.prototype.sort, nearestColor.                *)
(*                                                                         *)
(* A distance is kept as the sum of squares the source passes to Math.sqrt *)
(* (or NaN): Math.sqrt is strictly increasing on the integers that occur,  *)
(* so compare orders the sums exactly as it orders their square roots.     *)
(***************************************************************************)
\* obj.r, obj.g or obj.b as a number: undefined, hence NaN in arithmetic, without it
Channel(obj, ch) ==
    IF obj.t # "rgb" THEN NaN
    ELSE Num(CASE ch = "r" -> obj.r [] ch = "g" -> obj.g [] ch = "b" -> obj.b)

Square(x) == x * x

SumOfSquares(p, q) ==
    IF p.t # "rgb" \/ q.t # "rgb" THEN NaN
    ELSE Num(Square(Channel(p, "r").n - Channel(q, "r").n)
             + Square(Channel(p, "g").n - Channel(q, "g").n)
             + Square(Channel(p, "b").n - Channel(q, "b").n))

ColorMatch(color, distance) ==
    [name |-> IF Truthy(color.name) THEN color.name ELSE color.source,
     value |-> color.source,
     rgb |-> color.rgb,
     distance |-> distance]

\* A comparison with NaN is false.
LessThan(x, y) == ~x.nan /\ ~y.nan /\ x.n < y.n

compare(color1, color2) ==
    IF LessThan(color1.distance, color2.distance) THEN -1
    ELSE IF LessThan(color2.distance, color1.distance) THEN 1
    ELSE 0

\* compare is a consistent comparator on arr when comparing equal is transitive.
ConsistentComparator(arr) ==
    \A i, j, k \in DOMAIN arr :
        (compare(arr[i], arr[j]) = 0 /\ compare(arr[j], arr[k]) = 0) => compare(arr[i], arr[k]) = 0

\* x inserted into sorted after the elements that do not compare greater than it.
InsertSorted(sorted, x) ==
    LET p == Cardinality({i \in DOMAIN sorted : compare(sorted[i], x) <= 0})
    IN  SubSeq(sorted, 1, p) \o <<x>> \o SubSeq(sorted, p + 1, Len(sorted))

RECURSIVE StableSort(_)
StableSort(arr) ==
    IF arr = <<>> THEN <<>>
    ELSE InsertSorted(StableSort(SubSeq(arr, 1, Len(arr) - 1)), arr[Len(arr)])

\* arr.sort(compare): a stable sort; the order is implementation-defined when
\* compare is not a consistent comparator, so every permutation is possible then.
ArraySort(array) ==
    UNION {IF ConsistentComparator(arr) THEN {StableSort(arr)}
           ELSE {[i \in DOMAIN arr |-> arr[perm[i]]] : perm \in Permutations(DOMAIN arr)}
          : arr \in {array}}

\* arr.slice(0, amount)
Slice(arr, amount) == SubSeq(arr, 1, IF amount < Len(arr) THEN amount ELSE Len(arr))

\* What a call returns or throws: kind is "match", "undefined", "array",
\* "matcher" or the thrown value's tag; matches holds the ColorMatch(es) returned.
Outcome(kind, matches) == [kind |-> kind, matches |-> matches]

\* The effect of a call of nearestColor: what it returns and the array colors after it.
Effect(outcome, colorsAfter) == [ret |-> outcome, colors |-> colorsAfter]

\* An optional numeric argument.
Amount(n) == [given |-> TRUE, n |-> n]

NoAmount == [given |-> FALSE, n |-> 0]

RaiseOutcome(thrown) == Outcome(thrown.t, <<>>)

\* What nearestColor returns once colorMatchArray is sorted.
Returned(sorted, amount) ==
    IF amount <= 1
    THEN IF sorted = <<>> THEN Outcome("undefined", <<>>) ELSE Outcome("match", <<sorted[1]>>)
    ELSE Outcome("array", Slice(sorted, amount))

\* colorMatchArray after the loop over colors.
MatchArray(convertedNeedle, colorList) ==
    [i \in DOMAIN colorList |->
        ColorMatch(colorList[i], SumOfSquares(convertedNeedle, colorList[i].rgb))]

\* nearestColor sorting the array colors itself, by distance, as well.
nearestColorSortingColors(needle, colorList, amountArg) ==
    LET amount == IF amountArg.given THEN amountArg.n ELSE 1
        Keyed(convertedNeedle) == [i \in DOMAIN colorList |->
            [spec |-> colorList[i],
             distance |-> SumOfSquares(convertedNeedle, colorList[i].rgb)]]
    IN  UNION {
            IF Threw(convertedNeedle) THEN {Effect(RaiseOutcome(convertedNeedle), colorList)}
            ELSE IF convertedNeedle = Null THEN {Effect(RaiseOutcome(ColourError), colorList)}
            ELSE IF \E i \in DOMAIN colorList : colorList[i].rgb = Undefined
                 THEN {Effect(RaiseOutcome(TypeError), colorList)}
            ELSE {Effect(Returned(sorted, amount),
                         [i \in DOMAIN colorList |-> StableSort(Keyed(convertedNeedle))[i].spec]) :
                     sorted \in ArraySort(MatchArray(convertedNeedle, colorList))}
          : convertedNeedle \in {parseColorToRGB(needle)}}

\* The possible effects of nearestColor(needle, colors, amount).  A needle that
\* parses to null raises ColourError; color.rgb.r of a ColorSpec without rgb raises
\* a TypeError in the loop; the array colors is only read.
nearestColor(needle, colorList, amountArg) ==
    LET amount == IF amountArg.given THEN amountArg.n ELSE 1
    IN  UNION {
            IF Threw(convertedNeedle) THEN {Effect(RaiseOutcome(convertedNeedle), colorList)}
            ELSE IF convertedNeedle = Null THEN {Effect(RaiseOutcome(ColourError), colorList)}
            ELSE IF \E i \in DOMAIN colorList : colorList[i].rgb = Undefined
                 THEN {Effect(RaiseOutcome(TypeError), colorList)}
            ELSE {Effect(Returned(sorted, amount), colorList) :
                     sorted \in ArraySort(MatchArray(convertedNeedle, colorList))}
          : convertedNeedle \in {parseColorToRGB(needle)}}

(***************************************************************************)
(* The matcher: nearestFrom builds the palette once and returns the        *)
(* closure nearestColorFrom, which is then called any number of times.     *)
(***************************************************************************)
MaxPalette == 3

MaxAmount == 3

\* Records of an array passed to nearestFrom.
SampleRecords == {
    <<Prop(<<"n", "a", "m", "e">>, Str(<<"r", "e", "d">>)), Prop(<<"v", "a", "l", "u", "e">>, Str(<<"#", "f", "0", "0">>))>>,
    <<Prop(<<"n", "a", "m", "e">>, Str(<<"b", "l", "u", "e">>)), Prop(<<"v", "a", "l", "u", "e">>, Str(<<"r", "g", "b", "(", "0", ",", " ", "0", ",", " ", "2", "5", "5", ")">>))>>,
    <<Prop(<<"n", "a", "m", "e">>, Str(<<"b", "a", "d">>)), Prop(<<"v", "a", "l", "u", "e">>, Str(<<"n", "o", "p", "e">>))>>,
    <<Prop(<<"a", "p", "p", "l", "e", "t", "o", "n", "C", "o", "l", "o", "u", "r", "C", "o", "d", "e">>, Str(<<"G", "o", "l", "d", " ", "4">>)),
      Prop(<<"h", "e", "x", "C", "o", "d", "e">>, Str(<<"#", "D", "1", "B", "D", "3", "D">>))>> }

\* The field selectors passed with an array: none (the defaults apply), or those
\* of the records that have an appletonColourCode and a hexCode.
SampleSelectors == {
    <<Undefined, Undefined>>,
    <<Str(<<"a", "p", "p", "l", "e", "t", "o", "n", "C", "o", "l", "o", "u", "r", "C", "o", "d", "e">>), Str(<<"h", "e", "x", "C", "o", "d", "e">>)>> }

\* Names and colours of an object passed to nearestFrom.
SampleNames == {<<"r", "e", "d">>, <<"x">>}

SampleColours == {
    Str(<<"#", "f", "0", "0">>),
    Str(<<"#", "0", "0", "0", "0", "8", "0">>),
    RGB(255, 0, 0),
    Str(<<"_", "_", "p", "r", "o", "t", "o", "_", "_">>),
    Str(<<"v", "a", "l", "u", "e", "O", "f">>) }

\* The objects of at most MaxPalette properties with those names and colours,
\* each as its properties in key enumeration order.
SampleObjects ==
    {obj \in UNION {[1..n -> {Prop(k, v) : k \in SampleNames, v \in SampleColours}] :
                       n \in 0..MaxPalette} :
        \A i, j \in DOMAIN obj : i # j => obj[i].key # obj[j].key}

\* The colours searched for.
SampleNeedles == {
    Str(<<"#", "f", "f", "1">>),
    Str(<<"p", "u", "r", "p", "l", "e">>),
    RGB(0, 0, 0),
    Str(<<"f", "o", "o">>),
    Str(<<"_", "_", "p", "r", "o", "t", "o", "_", "_">>) }

SampleAmounts == {NoAmount} \cup {Amount(n) : n \in -1..MaxAmount}

Init ==
    /\ args = NoArgs
    /\ colors = <<>>
    /\ bound = FALSE
    /\ call = [hex |-> Undefined, amount |-> NoAmount]
    /\ ret = Outcome("none", <<>>)

\* nearestFrom(availableColors, name, hexCode): colors = mapColors(...), then the
\* closure over colors is returned, unless mapColors threw.
nearestFrom(availableColors, name, hexCode) ==
    LET mapped == mapColors(availableColors, name, hexCode)
    IN  /\ ret.kind = "none"
        /\ args' = [isArray |-> availableColors.isArray, records |-> availableColors.records,
                    name |-> name, hexCode |-> hexCode]
        /\ colors' = mapped.list
        /\ bound' = ~mapped.threw
        /\ ret' = IF mapped.threw THEN RaiseOutcome(TypeError) ELSE Outcome("matcher", <<>>)
        /\ UNCHANGED call

NearestFromArray ==
    \E records \in UNION {[1..n -> SampleRecords] : n \in 0..MaxPalette},
       selectors \in SampleSelectors :
        nearestFrom([isArray |-> TRUE, records |-> records], selectors[1], selectors[2])

NearestFromObject ==
    \E obj \in SampleObjects \cup {STANDARD_COLORS} :
        nearestFrom([isArray |-> FALSE, records |-> <<obj>>], Undefined, Undefined)

\* nearestColorFrom(hex, amount): nearestColor on the captured colors.
nearestColorFrom(hex, amount) ==
    /\ bound
    /\ \E effect \in nearestColor(hex, colors, amount) :
          /\ ret' = effect.ret
          /\ colors' = effect.colors
    /\ call' = [hex |-> hex, amount |-> amount]
    /\ UNCHANGED <<args, bound>>

NearestColorFrom ==
    \E hex \in SampleNeedles, amount \in SampleAmounts : nearestColorFrom(hex, amount)

Next == NearestFromArray \/ NearestFromObject \/ NearestColorFrom

Spec == Init /\ [][Next]_vars

(***************************************************************************)
(* Properties of the matcher under Spec.                                    *)
(***************************************************************************)
\* A call of the bound function has completed; call and ret describe it.
Queried == bound /\ ret.kind # "matcher"

RequestedAmount == IF call.amount.given THEN call.amount.n ELSE 1

\* The needle of the latest call normalizes to an RGB triple.
NeedleNormalizes == parseColorToRGB(call.hex).t = "rgb"

DistanceTo(i) == SumOfSquares(parseColorToRGB(call.hex), colors[i].rgb)

\* The ColorMatch of the i-th entry of the palette for the latest needle.
MatchOf(i) == ColorMatch(colors[i], DistanceTo(i))

Min(x, y) == IF x < y THEN x ELSE y

\* The matches returned are those of distinct palette entries p[1], p[2], ...
Selections ==
    {p \in [DOMAIN ret.matches -> DOMAIN colors] :
        /\ \A k, l \in DOMAIN p : k # l => p[k] # p[l]
        /\ \A k \in DOMAIN p : ret.matches[k] = MatchOf(p[k])}

\* C1: with a count <= 1 (or none) and a needle that normalizes, the bound function
\* returns one ColorMatch, an entry of the palette that no entry is strictly nearer
\* than; on an empty palette it returns undefined and does not throw.
SingleNearestReturned ==
    (Queried /\ NeedleNormalizes /\ RequestedAmount <= 1) =>
        IF colors = <<>> THEN ret.kind = "undefined"
        ELSE /\ ret.kind = "match"
             /\ \E i \in DOMAIN colors :
                   /\ ret.matches[1] = MatchOf(i)
                   /\ \A j \in DOMAIN colors : ~LessThan(DistanceTo(j), DistanceTo(i))

\* C2: with a count N > 1 and a needle that normalizes, the bound function returns
\* exactly min(N, P) matches of distinct entries of the palette of size P, in
\* non-decreasing distance, each at least as near as every entry left out.
NearestSequenceReturned ==
    (Queried /\ NeedleNormalizes /\ RequestedAmount > 1) =>
        /\ ret.kind = "array"
        /\ Len(ret.matches) = Min(RequestedAmount, Len(colors))
        /\ \E p \in Selections :
              /\ \A k, l \in DOMAIN p : k < l => ~LessThan(DistanceTo(p[l]), DistanceTo(p[k]))
              /\ \A k \in DOMAIN p : \A q \in DOMAIN colors \ Range(p) :
                    ~LessThan(DistanceTo(q), DistanceTo(p[k]))

\* C3: a needle that fails to normalize (no RGB triple, no built-in name, no hex
\* string, no rgb(...) string) makes the call raise the "invalid colour" error,
\* whatever the palette and the count; nothing is returned in its place.
InvalidNeedleRaises ==
    (/\ Queried
     /\ call.hex.t = "string"
     /\ ~IsStandardName(call.hex.s)
     /\ HexMatch(call.hex.s) = <<>>
     /\ RgbMatch(call.hex.s) = <<>>) => ret = RaiseOutcome(ColourError)

\* C4: building the palette never raises, and every ColorSpec of the palette has
\* an RGB triple and a source string: an entry whose colour does not normalize is
\* left out.
PaletteWellFormed ==
    ret.kind # "none" =>
        /\ bound
        /\ \A i \in DOMAIN colors : colors[i].rgb.t = "rgb" /\ colors[i].source.t = "string"

\* C5: entries at equal distance from the needle keep their build order: the
\* matches returned are those of distinct palette entries, and an entry returned
\* was built before every entry at the same distance that comes after it or is
\* left out.
TiesKeepBuildOrder ==
    (Queried /\ NeedleNormalizes) =>
        /\ ret.kind \in {"match", "undefined", "array"}
        /\ \E p \in Selections :
              /\ \A k, l \in DOMAIN p :
                    (k < l /\ DistanceTo(p[k]) = DistanceTo(p[l])) => p[k] < p[l]
              /\ \A k \in DOMAIN p : \A q \in DOMAIN colors \ Range(p) :
                    DistanceTo(p[k]) = DistanceTo(q) => p[k] < q

\* C7: the palette captured by the matcher stays what nearestFrom built from its
\* arguments, whatever calls were made, and every call returns or raises what it
\* would on a matcher freshly built from the same arguments.
PaletteReadOnly ==
    bound =>
        /\ colors = mapColors(args, args.name, args.hexCode).list
        /\ Queried =>
              ret \in {effect.ret : effect \in
                          nearestColor(call.hex, mapColors(args, args.name, args.hexCode).list,
                                       call.amount)}

\* C7 witness: a call has returned the second entry of the palette ahead of the first.
SecondEntryReturnedFirst ==
    /\ Queried
    /\ ret.kind = "array"
    /\ Len(ret.matches) >= 2
    /\ ret.matches[1] = MatchOf(2)
    /\ ret.matches[2] = MatchOf(1)
    /\ LessThan(DistanceTo(2), DistanceTo(1))

=============================================================================
